---- MODULE Spec2Model ----
(***************************************************************************)
(* Folder-to-tag plugin: tag resolution (folder-derived tags + custom      *)
(* directory mappings) and the reconciliation of a note's frontmatter      *)
(* tags on create / rename / bulk operations.                              *)
(*                                                                         *)
(* src/main.ts holds two builds of the plugin:                             *)
(*   "inherit": lines 1-690   (all directories as tags, exact-match rename *)
(*              propagation, inheritance into new sub-directories,         *)
(*              cleanAndReapplyAllTags, completeReset)                     *)
(*   "depth":   lines 692-1394 (folderDepth / prefix / suffix policies,    *)
(*              rename propagation to sub-directory mappings)              *)
(* The variable build says which one is running.                           *)
(*                                                                         *)
(* A JavaScript string is modelled as the sequence of its characters, so   *)
(* that split, join, startsWith, substring, trim and concatenation are     *)
(* computed and not assumed.                                               *)
(***************************************************************************)
EXTENDS Integers, Sequences, FiniteSets, TLC

VARIABLES build, settings, files, last, ops, probe, handlers

vars == <<build, settings, files, last, ops, probe, handlers>>

(***************************************************************************)
(* Strings                                                                 *)
(***************************************************************************)
SLASH == "/"
COMMA == ","
SPACE == " "

\* String.prototype.startsWith
StartsWith(s, p) == Len(p) <= Len(s) /\ SubSeq(s, 1, Len(p)) = p

\* String.prototype.substring(from) (0-based from)
Substring(s, from) == SubSeq(s, from + 1, Len(s))

\* String.prototype.split(sep) for a one-character separator
RECURSIVE Split(_, _)
Split(s, sep) ==
    IF \A i \in 1..Len(s) : s[i] # sep
    THEN <<s>>
    ELSE LET i == CHOOSE k \in 1..Len(s) :
                      s[k] = sep /\ \A j \in 1..(k - 1) : s[j] # sep
         IN  <<SubSeq(s, 1, i - 1)>> \o Split(SubSeq(s, i + 1, Len(s)), sep)

\* Array.prototype.join(sep)
RECURSIVE Join(_, _)
Join(parts, sep) ==
    IF parts = <<>> THEN <<>>
    ELSE IF Len(parts) = 1 THEN parts[1]
    ELSE parts[1] \o <<sep>> \o Join(Tail(parts), sep)

\* Array.prototype.slice(0, -1)
SliceInit(a) == IF a = <<>> THEN <<>> ELSE SubSeq(a, 1, Len(a) - 1)

\* String.prototype.trim
RECURSIVE TrimLeft(_)
TrimLeft(s) == IF s # <<>> /\ Head(s) = SPACE THEN TrimLeft(Tail(s)) ELSE s

RECURSIVE TrimRight(_)
TrimRight(s) ==
    IF s # <<>> /\ s[Len(s)] = SPACE THEN TrimRight(SubSeq(s, 1, Len(s) - 1)) ELSE s

Trim(s) == TrimRight(TrimLeft(s))

\* Array.prototype.includes
Includes(a, t) == \E i \in 1..Len(a) : a[i] = t

\* Array.prototype.map
Map(a, F(_)) == [i \in 1..Len(a) |-> F(a[i])]

\* a.filter(t => !b.includes(t))
FilterOut(a, b) == SelectSeq(a, LAMBDA t : ~Includes(b, t))

\* Variant: every tag is pushed, present or not.
PushAll(existing, tags) == existing \o tags

\* tags.forEach(t => { if (!existing.includes(t)) existing.push(t); })
RECURSIVE PushMissing(_, _)
PushMissing(existing, tags) ==
    IF tags = <<>> THEN existing
    ELSE PushMissing(IF Includes(existing, Head(tags)) THEN existing
                     ELSE Append(existing, Head(tags)),
                     Tail(tags))

\* [...new Set(a)]: first occurrences, in order
Dedupe(a) == PushMissing(<<>>, a)

Elems(a) == {a[i] : i \in 1..Len(a)}

\* normalizePath of the host API: separators collapsed, leading and trailing
\* separators stripped, and the empty path written "/"
normalizePath(p) ==
    LET r == Join(SelectSeq(Split(p, SLASH), LAMBDA x : x # <<>>), SLASH)
    IN  IF r = <<>> THEN <<SLASH>> ELSE r

\* normalizePath(path).split("/").slice(0, -1)
PathParts(path) == SliceInit(Split(normalizePath(path), SLASH))

\* normalizePath(path).split("/").slice(0, -1).join("/")
DirOf(path) == Join(PathParts(path), SLASH)

(***************************************************************************)
(* Settings and notes                                                      *)
(*   settings = [folderDepth, tagPrefix, tagSuffix, directoryTagMappings]  *)
(*   a mapping = [directory |-> string, tags |-> sequence of strings]      *)
(*   a note    = [exists, path, yaml, tags]                                *)
(*     yaml: "ok"        processFrontMatter hands the callback an object   *)
(*           "malformed" the callback is handed a non-object               *)
(*           "throws"    processFrontMatter rejects (unparsable block)     *)
(*     tags: the frontmatter's tags field, [kind, val] with kind           *)
(*           "absent", "list" (val: the items) or "string" (val: the text) *)
(***************************************************************************)
Mappings(s) == s.directoryTagMappings

NoTags == [kind |-> "absent", val |-> <<>>]

TagList(ts) == [kind |-> "list", val |-> ts]

\* let existingTags = []; if ("tags" in yaml) { array: map(String(t).trim());
\* string: split(",").map(trim) }
ReadTags(field) ==
    IF field.kind = "list" THEN Map(field.val, Trim)
    ELSE IF field.kind = "string" THEN Map(Split(field.val, COMMA), Trim)
    ELSE <<>>

\* Variant: the list is assigned, empty or not.
WriteAlways(ts) == TagList(ts)

\* if (existingTags.length === 0) delete yaml.tags; else yaml.tags = existingTags;
WriteOrDelete(ts) == IF ts = <<>> THEN NoTags ELSE TagList(ts)

(***************************************************************************)
(* PathTagDeriver                                                          *)
(***************************************************************************)
\* build "inherit": every directory of the path is a tag
getFolderTagsFromPath_inherit(path) ==
    LET parts == PathParts(path)
    IN  IF parts = <<>> THEN <<>> ELSE Map(parts, LAMBDA part : part)

\* Variant: the file name is not sliced off the parts.
getFolderTagsFromPath_WholePath(s, path) ==
    Map(Split(normalizePath(path), SLASH),
        LAMBDA part : s.tagPrefix \o part \o s.tagSuffix)

\* Variant: "2split" pushes two tags however many parts there are.
getFolderTagsFromPath_TwoAlways(s, path) ==
    LET parts == PathParts(path)
        n     == Len(parts)
        wrap(x) == s.tagPrefix \o x \o s.tagSuffix
    IN  IF parts = <<>> THEN <<>>
        ELSE IF s.folderDepth = "2split"
        THEN <<wrap(parts[n]), wrap(parts[IF n >= 2 THEN n - 1 ELSE n])>>
        ELSE IF s.folderDepth = "allsplit" THEN Map(parts, wrap)
        ELSE <<wrap(parts[n])>>

\* Variant: "2split" pushes the second-to-last part first.
getFolderTagsFromPath_ParentFirst(s, path) ==
    LET parts == PathParts(path)
        n     == Len(parts)
        wrap(x) == s.tagPrefix \o x \o s.tagSuffix
    IN  IF parts = <<>> THEN <<>>
        ELSE IF n >= 2 /\ s.folderDepth = "2split"
        THEN <<wrap(parts[n - 1]), wrap(parts[n])>>
        ELSE <<wrap(parts[n])>>

\* Variant: "allsplit" pushes the parts from the last to the first.
getFolderTagsFromPath_LeafFirst(s, path) ==
    LET parts == PathParts(path)
        n     == Len(parts)
        wrap(x) == s.tagPrefix \o x \o s.tagSuffix
    IN  IF parts = <<>> THEN <<>>
        ELSE IF s.folderDepth = "allsplit"
        THEN [i \in 1..n |-> wrap(parts[n + 1 - i])]
        ELSE <<wrap(parts[n])>>

\* build "depth": folderDepth, tagPrefix, tagSuffix
getFolderTagsFromPath_depth(s, path) ==
    LET parts == PathParts(path)
        n     == Len(parts)
        wrap(x) == s.tagPrefix \o x \o s.tagSuffix
    IN  IF parts = <<>> THEN <<>>
        ELSE CASE s.folderDepth = "1" -> <<wrap(parts[n])>>
               [] s.folderDepth = "2split" ->
                      IF n >= 2 THEN <<wrap(parts[n]), wrap(parts[n - 1])>>
                      ELSE <<wrap(parts[n])>>
               [] s.folderDepth = "2single" ->
                      IF n >= 2 THEN <<wrap(parts[n - 1] \o <<SLASH>> \o parts[n])>>
                      ELSE <<wrap(parts[n])>>
               [] s.folderDepth = "full" -> <<wrap(Join(parts, SLASH))>>
               [] s.folderDepth = "allsplit" -> Map(parts, wrap)
               [] OTHER -> <<>>

getFolderTagsFromPath(s, path) ==
    IF build = "inherit" THEN getFolderTagsFromPath_inherit(path)
    ELSE getFolderTagsFromPath_depth(s, path)

(***************************************************************************)
(* DirectoryMappingStore                                                   *)
(***************************************************************************)
\* Variant: the prefix test without the separator.
InDirectory_Prefix(dirPath, normalizedDir) == StartsWith(dirPath, normalizedDir)

\* dirPath === normalizedDir || dirPath.startsWith(normalizedDir + "/")
InDirectory(dirPath, normalizedDir) ==
    dirPath = normalizedDir \/ StartsWith(dirPath, normalizedDir \o <<SLASH>>)

RECURSIVE ConcatTags(_)
ConcatTags(ms) == IF ms = <<>> THEN <<>> ELSE Head(ms).tags \o ConcatTags(Tail(ms))

getCustomDirectoryTags(s, path) ==
    LET dirPath == DirOf(path)
        hit(m)  == LET normalizedDir == normalizePath(m.directory)
                   IN  normalizedDir # <<>> /\ InDirectory(dirPath, normalizedDir)
    IN  ConcatTags(SelectSeq(Mappings(s), hit))

\* Variant: the two lists are concatenated as they are.
getAllTags_Concat(s, path) ==
    getFolderTagsFromPath(s, path) \o getCustomDirectoryTags(s, path)

\* TagSetResolver
getAllTags(s, path) ==
    Dedupe(getFolderTagsFromPath(s, path) \o getCustomDirectoryTags(s, path))

\* build "inherit": only a mapping that is exactly the renamed directory follows it
handleDirectoryRename_inherit(s, oldPath, newPath) ==
    LET oldDir == DirOf(oldPath)
        newDir == DirOf(newPath)
        upd(m) == IF normalizePath(m.directory) = oldDir
                  THEN [m EXCEPT !.directory = newDir] ELSE m
    IN  IF oldDir = newDir THEN s
        ELSE [s EXCEPT !.directoryTagMappings = Map(Mappings(s), upd)]

\* Variant: the mappings below the renamed directory are left alone.
handleDirectoryRename_exact(s, oldPath, newPath) ==
    LET oldDir == DirOf(oldPath)
        newDir == DirOf(newPath)
        upd(m) == IF normalizePath(m.directory) = oldDir
                  THEN [m EXCEPT !.directory = newDir] ELSE m
    IN  IF oldDir = newDir THEN s
        ELSE [s EXCEPT !.directoryTagMappings = Map(Mappings(s), upd)]

\* build "depth": mappings of sub-directories follow it too
handleDirectoryRename_depth(s, oldPath, newPath) ==
    LET oldDir == DirOf(oldPath)
        newDir == DirOf(newPath)
        upd(m) == LET normalizedMapping == normalizePath(m.directory)
                  IN  IF normalizedMapping = oldDir
                         \/ StartsWith(normalizedMapping, oldDir \o <<SLASH>>)
                      THEN [m EXCEPT !.directory =
                                newDir \o Substring(normalizedMapping, Len(oldDir))]
                      ELSE m
    IN  IF oldDir = newDir THEN s
        ELSE [s EXCEPT !.directoryTagMappings = Map(Mappings(s), upd)]

\* Variant: the store is left as it is.
handleDirectoryRename_None(s, oldPath, newPath) == s

handleDirectoryRename(s, oldPath, newPath) ==
    IF build = "inherit" THEN handleDirectoryRename_inherit(s, oldPath, newPath)
    ELSE handleDirectoryRename_depth(s, oldPath, newPath)

\* the first mapping, in store order, that is a strict ancestor of dirPath
\* (null is modelled as the index 0)
findParentDirectoryMapping(s, dirPath) ==
    LET normalized == normalizePath(dirPath)
        isParent(i) ==
            LET normalizedMapping == normalizePath(Mappings(s)[i].directory)
            IN  /\ ~(normalizedMapping = <<>> \/ normalizedMapping = normalized)
                /\ StartsWith(normalized, normalizedMapping \o <<SLASH>>)
        cands == {i \in 1..Len(Mappings(s)) : isParent(i)}
    IN  IF cands = {} THEN 0 ELSE CHOOSE i \in cands : \A j \in cands : i <= j

hasDirectoryMapping(s, dirPath) ==
    LET normalized == normalizePath(dirPath)
    IN  \E i \in 1..Len(Mappings(s)) : normalizePath(Mappings(s)[i].directory) = normalized

(***************************************************************************)
(* ReconciliationEngine                                                    *)
(***************************************************************************)
\* Variant: the tags of add go in front of the tags that stay.
Reconcile_AddFirst(existingTags, remove, add) ==
    LET kept == SelectSeq(existingTags, LAMBDA t : ~Includes(remove, t))
    IN  add \o SelectSeq(kept, LAMBDA t : ~Includes(add, t))

\* existingTags.filter(t => !remove.includes(t)), then push every tag of add
\* that is not yet included
Reconcile(existingTags, remove, add) ==
    PushMissing(FilterOut(existingTags, remove), add)

\* Variant: the resolved tags replace the note's tag list.
applyFolderTag_Overwrite(s, file, action, oldPath) ==
    LET folderTags == Dedupe(getFolderTagsFromPath(s, file.path)
                               \o getCustomDirectoryTags(s, file.path))
        skip == [threw |-> FALSE, ran |-> FALSE, before |-> <<>>, file |-> file]
    IN  IF folderTags = <<>> THEN skip
        ELSE IF file.yaml = "throws" THEN [skip EXCEPT !.threw = TRUE]
        ELSE IF file.yaml # "ok" THEN skip
        ELSE [threw |-> FALSE, ran |-> TRUE, before |-> ReadTags(file.tags),
              file |-> [file EXCEPT !.tags = TagList(folderTags)]]

\* The result of one applyFolderTag call:
\*   threw: processFrontMatter rejected; ran: the callback rewrote yaml.tags;
\*   before: existingTags as the callback read them
applyFolderTag(s, file, action, oldPath) ==
    LET folderTags == getAllTags(s, file.path)
        skip == [threw |-> FALSE, ran |-> FALSE, before |-> <<>>, file |-> file]
    IN  IF folderTags = <<>> THEN skip
        ELSE IF file.yaml = "throws" THEN [skip EXCEPT !.threw = TRUE]
        ELSE IF file.yaml # "ok" THEN skip
        ELSE LET existingTags == ReadTags(file.tags)
                 remove == IF action = "move" /\ oldPath # <<>>
                           THEN getAllTags(s, oldPath)
                           ELSE IF action = "rerun" THEN getAllTags(s, file.path)
                           ELSE <<>>
             IN  [threw |-> FALSE, ran |-> TRUE, before |-> existingTags,
                  file |-> [file EXCEPT !.tags =
                               TagList(Reconcile(existingTags, remove, folderTags))]]

\* Variant: an emptied tag list is written back as an empty list.
RemoveCallback_KeepsField(file, tags) ==
    IF file.yaml # "ok" THEN file
    ELSE [file EXCEPT !.tags =
             TagList(SelectSeq(ReadTags(file.tags), LAMBDA t : ~Includes(tags, t)))]

\* Variant: the callback does not test what kind of value yaml is.
RemoveCallback_NoGuard(file, tags) ==
    [file EXCEPT !.tags = WriteOrDelete(FilterOut(ReadTags(file.tags), tags))]

\* the callback of removeTagsForMapping / removeFolderTags /
\* removeCustomDirectoryTags / completeReset
RemoveCallback(file, tags) ==
    IF file.yaml # "ok" THEN file
    ELSE [file EXCEPT !.tags = WriteOrDelete(FilterOut(ReadTags(file.tags), tags))]

\* Variant: every tag of the mapping is pushed, present or not.
ApplyCallback_PushAll(file, tags) ==
    IF file.yaml # "ok" THEN file
    ELSE [file EXCEPT !.tags = TagList(ReadTags(file.tags) \o tags)]

\* Variant: the callback leaves a frontmatter that holds the tags only.
ApplyCallback_TagsOnly(file, tags) ==
    IF file.yaml # "ok" THEN file
    ELSE [file EXCEPT !.tags = TagList(PushMissing(ReadTags(file.tags), tags)),
                      !.other = <<>>]

\* the callback of applyTagsForMapping
ApplyCallback(file, tags) ==
    IF file.yaml # "ok" THEN file
    ELSE [file EXCEPT !.tags = TagList(PushMissing(ReadTags(file.tags), tags))]

\* Variant: the mapping's new tags replace the note's tag list.
UpdateCallback_Overwrite(file, oldTags, newTags) ==
    IF file.yaml # "ok" THEN file
    ELSE [file EXCEPT !.tags = WriteOrDelete(newTags)]

\* the callback of updateTagsForMapping
UpdateCallback(file, oldTags, newTags) ==
    IF file.yaml # "ok" THEN file
    ELSE [file EXCEPT !.tags =
             WriteOrDelete(Reconcile(ReadTags(file.tags), oldTags, newTags))]

\* A bulk result: the notes, the returned count, and whether a rejection of
\* processFrontMatter left the loop
Bulk(fs, count, threw) == [files |-> fs, count |-> count, threw |-> threw]

FileInMapping(file, mapping) ==
    InDirectory(DirOf(file.path), normalizePath(mapping.directory))

RECURSIVE removeTagsLoop(_, _, _, _)
removeTagsLoop(fs, order, mapping, count) ==
    IF order = <<>> THEN Bulk(fs, count, FALSE)
    ELSE LET f == fs[Head(order)]
         IN  IF ~FileInMapping(f, mapping)
             THEN removeTagsLoop(fs, Tail(order), mapping, count)
             ELSE IF f.yaml = "throws" THEN Bulk(fs, count, TRUE)
             ELSE LET g == RemoveCallback(f, mapping.tags)
                      removed == f.yaml = "ok"
                                 /\ Len(FilterOut(ReadTags(f.tags), mapping.tags))
                                      < Len(ReadTags(f.tags))
                  IN  removeTagsLoop([fs EXCEPT ![Head(order)] = g], Tail(order),
                                     mapping, IF removed THEN count + 1 ELSE count)

removeTagsForMapping(fs, order, mapping) == removeTagsLoop(fs, order, mapping, 0)

RECURSIVE applyTagsLoop(_, _, _, _)
applyTagsLoop(fs, order, mapping, count) ==
    IF order = <<>> THEN Bulk(fs, count, FALSE)
    ELSE LET f == fs[Head(order)]
         IN  IF ~FileInMapping(f, mapping)
             THEN applyTagsLoop(fs, Tail(order), mapping, count)
             ELSE IF f.yaml = "throws" THEN Bulk(fs, count, TRUE)
             ELSE LET g == ApplyCallback(f, mapping.tags)
                      applied == f.yaml = "ok"
                                 /\ Len(PushMissing(ReadTags(f.tags), mapping.tags))
                                      > Len(ReadTags(f.tags))
                  IN  applyTagsLoop([fs EXCEPT ![Head(order)] = g], Tail(order),
                                    mapping, IF applied THEN count + 1 ELSE count)

applyTagsForMapping(fs, order, mapping) ==
    IF mapping.directory = <<>> \/ mapping.tags = <<>> THEN Bulk(fs, 0, FALSE)
    ELSE applyTagsLoop(fs, order, mapping, 0)

RECURSIVE updateTagsLoop(_, _, _, _, _)
updateTagsLoop(fs, order, mapping, oldTags, count) ==
    IF order = <<>> THEN Bulk(fs, count, FALSE)
    ELSE LET f == fs[Head(order)]
         IN  IF ~FileInMapping(f, mapping)
             THEN updateTagsLoop(fs, Tail(order), mapping, oldTags, count)
             ELSE IF f.yaml = "throws" THEN Bulk(fs, count, TRUE)
             ELSE LET g == UpdateCallback(f, oldTags, mapping.tags)
                      kept == FilterOut(ReadTags(f.tags), oldTags)
                      modified == f.yaml = "ok"
                                  /\ (Len(kept) < Len(ReadTags(f.tags))
                                      \/ \E i \in 1..Len(mapping.tags) :
                                            ~Includes(kept, mapping.tags[i]))
                  IN  updateTagsLoop([fs EXCEPT ![Head(order)] = g], Tail(order),
                                     mapping, oldTags,
                                     IF modified THEN count + 1 ELSE count)

updateTagsForMapping(fs, order, mapping, oldTags) ==
    IF mapping.directory = <<>> THEN Bulk(fs, 0, FALSE)
    ELSE updateTagsLoop(fs, order, mapping, oldTags, 0)

\* build "inherit": a directory seen for the first time under a mapped parent
\* gets a mapping with a copy of the parent's tags, applied to the notes in it
handleNewSubdirectory(s, fs, order, dirPath) ==
    LET normalized == normalizePath(dirPath)
        parent     == findParentDirectoryMapping(s, normalized)
        same       == [settings |-> s, files |-> fs, threw |-> FALSE]
    IN  IF hasDirectoryMapping(s, normalized) THEN same
        ELSE IF parent # 0 /\ Mappings(s)[parent].tags # <<>>
        THEN LET newMapping == [directory |-> normalized,
                                tags |-> Mappings(s)[parent].tags]
                 r == applyTagsForMapping(fs, order, newMapping)
             IN  [settings |-> [s EXCEPT !.directoryTagMappings =
                                    Append(Mappings(s), newMapping)],
                  files |-> r.files, threw |-> r.threw]
        ELSE same

\* Variant: no try/catch around the call, the first failure ends the loop.
RECURSIVE cleanAndReapplyLoop_Unguarded(_, _, _, _)
cleanAndReapplyLoop_Unguarded(s, fs, order, count) ==
    IF order = <<>> THEN Bulk(fs, count, FALSE)
    ELSE LET r == applyFolderTag(s, fs[Head(order)], "rerun", <<>>)
         IN  IF r.threw THEN Bulk(fs, count, TRUE)
             ELSE cleanAndReapplyLoop_Unguarded(s, [fs EXCEPT ![Head(order)] = r.file],
                                                Tail(order), count + 1)

\* cleanAndReapplyAllTags (build "inherit") and the "Reapply to all notes"
\* button (build "depth"): applyFolderTag(file, "rerun") for every note, each
\* call inside try/catch
RECURSIVE cleanAndReapplyLoop(_, _, _, _)
cleanAndReapplyLoop(s, fs, order, count) ==
    IF order = <<>> THEN Bulk(fs, count, FALSE)
    ELSE LET r == applyFolderTag(s, fs[Head(order)], "rerun", <<>>)
         IN  cleanAndReapplyLoop(s, [fs EXCEPT ![Head(order)] = r.file], Tail(order),
                                 IF r.threw THEN count ELSE count + 1)

cleanAndReapplyAllTags(s, fs, order) == cleanAndReapplyLoop(s, fs, order, 0)

\* Variant: no try/catch around a note, the first failure ends the loop.
RECURSIVE completeResetLoop_Unguarded(_, _, _, _)
completeResetLoop_Unguarded(s, fs, order, count) ==
    IF order = <<>> THEN Bulk(fs, count, FALSE)
    ELSE LET f == fs[Head(order)]
             allTags == getAllTags(s, f.path)
         IN  IF allTags = <<>> THEN completeResetLoop_Unguarded(s, fs, Tail(order), count)
             ELSE IF f.yaml = "throws" THEN Bulk(fs, count, TRUE)
             ELSE completeResetLoop_Unguarded(s, [fs EXCEPT ![Head(order)] =
                          [f EXCEPT !.tags = WriteOrDelete(
                              SelectSeq(ReadTags(f.tags),
                                        LAMBDA t : ~Includes(allTags, t)))]],
                      Tail(order), count + 1)

\* completeReset: per note, inside try/catch, remove getAllTags(file.path)
RECURSIVE completeResetLoop(_, _, _, _)
completeResetLoop(s, fs, order, count) ==
    IF order = <<>> THEN Bulk(fs, count, FALSE)
    ELSE LET f == fs[Head(order)]
             allTags == getAllTags(s, f.path)
         IN  IF allTags = <<>> THEN completeResetLoop(s, fs, Tail(order), count)
             ELSE IF f.yaml = "throws" THEN completeResetLoop(s, fs, Tail(order), count)
             ELSE completeResetLoop(s, [fs EXCEPT ![Head(order)] =
                                           RemoveCallback(f, allTags)],
                                    Tail(order), count + 1)

completeReset(s, fs, order) == completeResetLoop(s, fs, order, 0)

\* build "depth": removeFolderTags(file) / removeCustomDirectoryTags(file) for
\* every note, with no try/catch around the call
RECURSIVE removeResolvedLoop(_, _, _, _)
removeResolvedLoop(s, fs, order, customOnly) ==
    IF order = <<>> THEN Bulk(fs, 0, FALSE)
    ELSE LET f == fs[Head(order)]
             tags == IF customOnly THEN getCustomDirectoryTags(s, f.path)
                     ELSE getAllTags(s, f.path)
         IN  IF tags = <<>> THEN removeResolvedLoop(s, fs, Tail(order), customOnly)
             ELSE IF f.yaml = "throws" THEN Bulk(fs, 0, TRUE)
             ELSE removeResolvedLoop(s, [fs EXCEPT ![Head(order)] =
                                            RemoveCallback(f, tags)],
                                     Tail(order), customOnly)

(***************************************************************************)
(* Settings tab                                                            *)
(***************************************************************************)
\* tagsString.split(",").map(t => t.trim()).filter(t => t.length > 0)
parseTagsFromString(tagsString) ==
    SelectSeq(Map(Split(tagsString, COMMA), Trim), LAMBDA t : t # <<>>)

\* UTF-16 code units of the characters in use
CharCode(c) ==
    CASE c = " " -> 32 [] c = "," -> 44 [] c = "/" -> 47
      [] c = "a" -> 97 [] c = "b" -> 98 [] c = "c" -> 99
      [] c = "m" -> 109 [] c = "n" -> 110 [] c = "p" -> 112
      [] c = "s" -> 115 [] c = "t" -> 116 [] c = "u" -> 117
      [] c = "x" -> 120 [] c = "y" -> 121 [] OTHER -> 0

\* the default comparison of Array.prototype.sort on strings
RECURSIVE StrLess(_, _)
StrLess(x, y) ==
    IF y = <<>> THEN FALSE
    ELSE IF x = <<>> THEN TRUE
    ELSE IF Head(x) # Head(y) THEN CharCode(Head(x)) < CharCode(Head(y))
    ELSE StrLess(Tail(x), Tail(y))

\* Array.prototype.sort() (stable insertion into the sorted rest)
RECURSIVE Sort(_)
Sort(a) ==
    IF a = <<>> THEN <<>>
    ELSE LET rest == Sort(Tail(a))
             x == Head(a)
             smaller == SelectSeq(rest, LAMBDA y : StrLess(y, x))
             others  == SelectSeq(rest, LAMBDA y : ~StrLess(y, x))
         IN  smaller \o <<x>> \o others

\* splice(index, 1)
Splice(a, i) == SubSeq(a, 1, i - 1) \o SubSeq(a, i + 1, Len(a))

(***************************************************************************)
(* The vault and the inputs                                                *)
(***************************************************************************)
MaxOps == 1

MaxMappings == 2

Docs == {1, 2}

Builds == {"inherit", "depth"}

Depths == {"1", "2split", "2single", "full", "allsplit"}

FileName(d) == IF d = 1 THEN <<"n">> ELSE <<"m">>

Dirs == { <<>>, <<"a">>, <<"a", "/", "b">>, <<"a", "/", "c">>,
          <<"a", "/", "b", "c">>, <<"a", "/", "b", "/", "c">> }

PathIn(dir, d) == IF dir = <<>> THEN FileName(d) ELSE dir \o <<SLASH>> \o FileName(d)

Mapping(dir, tags) == [directory |-> dir, tags |-> tags]

\* what a note's frontmatter holds besides tags
OtherFields == <<"t", "i", "t", "l", "e">>

NoFile ==
    [exists |-> FALSE, path |-> <<>>, yaml |-> "ok", tags |-> NoTags, other |-> <<>>]

File(path, yaml, tags) ==
    [exists |-> TRUE, path |-> path, yaml |-> yaml, tags |-> tags,
     other |-> OtherFields]

\* getMarkdownFiles(): the notes of the vault, in an order the host chooses.
\* Every note is processed on its own, so the order shows only when one of
\* them makes processFrontMatter reject; otherwise one order stands for all.
Orders(fs) ==
    LET ids == {d \in Docs : fs[d].exists}
        all == {o \in UNION {[1..k -> ids] : k \in 0..Cardinality(Docs)} :
                   /\ Len(o) = Cardinality(ids)
                   /\ \A i, j \in 1..Len(o) : i # j => o[i] # o[j]}
    IN  IF \E d \in ids : fs[d].yaml = "throws" THEN all
        ELSE {CHOOSE o \in all : \A i, j \in 1..Len(o) : i < j => o[i] < o[j]}

DEFAULT_SETTINGS ==
    [folderDepth |-> "1", tagPrefix |-> <<>>, tagSuffix |-> <<>>,
     directoryTagMappings |-> <<>>]

Event(op, d, oldPath, r, preMaps) ==
    [op |-> op, d |-> d, oldPath |-> oldPath, ran |-> r.ran, before |-> r.before,
     threw |-> r.threw, count |-> 0, preMaps |-> preMaps,
     tagsA |-> <<>>, tagsB |-> <<>>]

BulkEvent(op, r, preMaps, tagsA, tagsB) ==
    [op |-> op, d |-> 0, oldPath |-> <<>>, ran |-> FALSE, before |-> <<>>,
     threw |-> r.threw, count |-> r.count, preMaps |-> preMaps,
     tagsA |-> tagsA, tagsB |-> tagsB]

\* a bulk operation of the settings tab's row i
MappingEvent(op, i, r, preMaps, tagsA, tagsB) ==
    [BulkEvent(op, r, preMaps, tagsA, tagsB) EXCEPT !.d = i]

\* An event handler that suspends at its awaits: pc names the await it is
\* suspended at, and the rest are the locals it holds across the await
Idle ==
    [pc |-> "idle", action |-> "none", oldPath |-> <<>>, newMapping |-> <<>>,
     todo |-> <<>>, folderTags |-> <<>>]

NoResult == [threw |-> FALSE, ran |-> FALSE, before |-> <<>>, count |-> 0]

(***************************************************************************)
(* Initial states: the settings as loaded, the notes as found in the vault *)
(***************************************************************************)
T_t == <<"t">>
T_u == <<"u">>
T_x == <<"x">>
T_y == <<"y">>

InitStores ==
    { <<>>,
      <<Mapping(<<"a", "/", "b">>, <<T_t>>),
        Mapping(<<"a", "/", "b", "/", "c">>, <<T_u>>)>>,
      <<Mapping(<<>>, <<T_u>>), Mapping(<<"a">>, <<T_t, <<"b">>>>)>>,
      <<Mapping(<<"a">>, <<>>), Mapping(<<"a", "/", "b">>, <<T_u>>)>> }

InitPolicies ==
    IF build = "inherit" THEN {DEFAULT_SETTINGS}
    ELSE {DEFAULT_SETTINGS,
          [DEFAULT_SETTINGS EXCEPT !.folderDepth = "allsplit", !.tagPrefix = <<"p">>]}

\* The vaults at load: the notes n (document 1) and m (document 2), with the
\* tags fields a note can carry - a list, a list with an item to trim, a
\* comma-separated string - and frontmatter that is an object ("ok"), is not
\* one ("malformed"), or makes processFrontMatter reject ("throws")
N_ab == File(PathIn(<<"a", "/", "b">>, 1), "ok", TagList(<<<<"b">>, T_x>>))

N_abString ==
    File(PathIn(<<"a", "/", "b">>, 1), "ok",
         [kind |-> "string", val |-> <<"b", ",", " ", "x">>])

N_abMalformed ==
    File(PathIn(<<"a", "/", "b">>, 1), "malformed", TagList(<<<<"b">>, T_x>>))

N_a == File(PathIn(<<"a">>, 1), "ok", TagList(<<T_x, <<" ", "a">>, T_t, T_y>>))

\* a note whose only tag is the tag of its folder
N_b == File(PathIn(<<"a", "/", "b">>, 1), "ok", TagList(<<<<"b">>>>))

N_root == File(PathIn(<<>>, 1), "ok", TagList(<<<<"b">>, T_x>>))

M_abc(yaml) ==
    File(PathIn(<<"a", "/", "b", "/", "c">>, 2), yaml, TagList(<<<<"a">>, T_t, T_x>>))

InitVaults ==
    { <<NoFile, NoFile>>, <<N_ab, NoFile>>, <<N_abString, NoFile>>,
      <<N_root, NoFile>>, <<NoFile, M_abc("ok")>>, <<NoFile, M_abc("throws")>>,
      <<N_a, M_abc("ok")>>, <<N_a, M_abc("throws")>>,
      <<N_abMalformed, M_abc("ok")>>, <<N_ab, M_abc("throws")>>,
      <<N_b, NoFile>> }

Init ==
    /\ build \in Builds
    /\ \E pol \in InitPolicies, st \in InitStores :
          settings = [pol EXCEPT !.directoryTagMappings = st]
    /\ files \in InitVaults
    /\ last = Event("init", 0, <<>>, NoResult, <<>>)
    /\ ops = 0
    /\ probe = [kind |-> "none"]
    /\ handlers = [h \in Docs |-> Idle]

(***************************************************************************)
(* Actions                                                                 *)
(***************************************************************************)
Step == ops < MaxOps /\ ops' = ops + 1 /\ UNCHANGED <<build, probe, handlers>>

\* the names a rename can give: note n can be renamed in place
FileNames(d) == IF d = 1 THEN {<<"n">>, <<"n", "n">>} ELSE {<<"m">>}

PathOf(dir, name) == IF dir = <<>> THEN name ELSE dir \o <<SLASH>> \o name

\* The handlers registered in onload. Each \E x \in {e} binds the value of one
\* awaited call, in the order the handler makes them.

\* if (dirPath) await this.handleNewSubdirectory(dirPath)   (build "inherit")
NewSubdirectoryStep(s, fs, order, path) ==
    IF build = "inherit" /\ DirOf(path) # <<>>
    THEN handleNewSubdirectory(s, fs, order, DirOf(path))
    ELSE [settings |-> s, files |-> fs, threw |-> FALSE]

\* what a handler leaves behind: a rejected await ends it
Outcome(h, d, r) ==
    IF h.threw THEN [files |-> h.files, res |-> [NoResult EXCEPT !.threw = TRUE]]
    ELSE [files |-> [h.files EXCEPT ![d] = r.file], res |-> r]

\* vault.on("create"): a note appears in the vault and the handler runs
Create(d, dir, yaml, field) ==
    /\ Step
    /\ ~files[d].exists
    /\ \E fs \in {[files EXCEPT ![d] = File(PathIn(dir, d), yaml, field)]} :
       \E order \in Orders(fs) :
       \E h \in {NewSubdirectoryStep(settings, fs, order, fs[d].path)} :
       \E r \in {applyFolderTag(h.settings, h.files[d], "create", <<>>)} :
       \E out \in {Outcome(h, d, r)} :
          /\ settings' = h.settings
          /\ files' = out.files
          /\ last' = Event("create", d, <<>>, out.res, Mappings(settings))

\* vault.on("rename"): a note is renamed or moved and the handler runs
Rename(d, dir, name) ==
    /\ Step
    /\ files[d].exists
    /\ PathOf(dir, name) # files[d].path
    /\ name = FileName(d) \/ files[d].path = PathOf(dir, FileName(d))
    /\ \E fs \in {[files EXCEPT ![d].path = PathOf(dir, name)]} :
       \E order \in Orders(fs) :
       \E s1 \in {handleDirectoryRename(settings, files[d].path, fs[d].path)} :
       \E h \in {NewSubdirectoryStep(s1, fs, order, fs[d].path)} :
       \E r \in {applyFolderTag(h.settings, h.files[d], "move", files[d].path)} :
       \E out \in {Outcome(h, d, r)} :
          /\ settings' = h.settings
          /\ files' = out.files
          /\ last' = Event("move", d, files[d].path, out.res, Mappings(settings))

\* "Clean & Reapply" / "Reapply to all notes"
CleanAndReapply ==
    /\ Step
    /\ \E order \in Orders(files) :
          LET r == cleanAndReapplyAllTags(settings, files, order)
          IN  /\ files' = r.files
              /\ last' = BulkEvent("rerun", r, Mappings(settings), <<>>, <<>>)
    /\ UNCHANGED settings

\* "Complete Reset" (build "inherit")
CompleteReset ==
    /\ Step
    /\ build = "inherit"
    /\ \E order \in Orders(files) :
          LET r == completeReset(settings, files, order)
          IN  /\ files' = r.files
              /\ last' = BulkEvent("completeReset", r, Mappings(settings), <<>>, <<>>)
    /\ settings' = [settings EXCEPT !.directoryTagMappings = <<>>]

\* "Remove folder tags" (build "depth")
RemoveFolderTagsAll ==
    /\ Step
    /\ build = "depth"
    /\ \E order \in Orders(files) :
          LET r == removeResolvedLoop(settings, files, order, FALSE)
          IN  /\ files' = r.files
              /\ last' = BulkEvent("removeFolderTags", r, Mappings(settings), <<>>, <<>>)
    /\ UNCHANGED settings

\* "Remove custom tags" (build "depth")
RemoveCustomTagsAll ==
    /\ Step
    /\ build = "depth"
    /\ \E order \in Orders(files) :
          LET r == removeResolvedLoop(settings, files, order, TRUE)
          IN  /\ files' = r.files
              /\ last' = BulkEvent("removeCustomTags", r, Mappings(settings), <<>>, <<>>)
    /\ UNCHANGED settings

\* the folder depth / prefix / suffix editors (build "depth")
SetFolderDepth(v) ==
    /\ Step
    /\ build = "depth"
    /\ v # settings.folderDepth
    /\ settings' = [settings EXCEPT !.folderDepth = v]
    /\ last' = Event("setFolderDepth", 0, <<>>, NoResult, Mappings(settings))
    /\ UNCHANGED files

SetTagPrefix(v) ==
    /\ Step
    /\ build = "depth"
    /\ v # settings.tagPrefix
    /\ settings' = [settings EXCEPT !.tagPrefix = v]
    /\ last' = Event("setTagPrefix", 0, <<>>, NoResult, Mappings(settings))
    /\ UNCHANGED files

SetTagSuffix(v) ==
    /\ Step
    /\ build = "depth"
    /\ v # settings.tagSuffix
    /\ settings' = [settings EXCEPT !.tagSuffix = v]
    /\ last' = Event("setTagSuffix", 0, <<>>, NoResult, Mappings(settings))
    /\ UNCHANGED files

\* The mapping rows of the settings tab. Each row's handlers are taken as the
\* tab has just drawn them: originalDirectory and originalTags are the
\* mapping's current values.

DirInputs == { <<>>, <<"a", "/">>, <<"a", "/", "b">>, <<"a", "/", "c">> }

TagInputs == { <<>>, <<"t">>, <<"b">>, <<"u", ",", " ", "t">> }

SetMapping(s, i, m) == [s EXCEPT !.directoryTagMappings[i] = m]

\* "Add directory mapping"
AddMapping ==
    /\ Step
    /\ Len(Mappings(settings)) < MaxMappings
    /\ settings' = [settings EXCEPT !.directoryTagMappings =
                       Append(Mappings(settings), Mapping(<<>>, <<>>))]
    /\ last' = Event("addMapping", 0, <<>>, NoResult, Mappings(settings))
    /\ UNCHANGED files

\* blur of a row's directory field (the confirmation is accepted)
EditMappingDirectory(i, newDirectory) ==
    /\ Step
    /\ i \in 1..Len(Mappings(settings))
    /\ LET mapping == Mappings(settings)[i]
           originalDirectory == mapping.directory
           moved == [mapping EXCEPT !.directory = newDirectory]
       IN  /\ newDirectory # originalDirectory
           /\ IF originalDirectory # <<>>
              THEN \E order1 \in Orders(files), order2 \in Orders(files) :
                      LET r1 == removeTagsForMapping(files, order1,
                                    Mapping(originalDirectory, mapping.tags))
                          r2 == IF newDirectory # <<>> /\ mapping.tags # <<>>
                                THEN applyTagsForMapping(r1.files, order2, moved)
                                ELSE Bulk(r1.files, 0, FALSE)
                      IN  IF r1.threw
                          THEN /\ files' = r1.files
                               /\ settings' = settings
                               /\ last' = MappingEvent("editDirectory", i, r1,
                                             Mappings(settings), mapping.tags, <<>>)
                          ELSE /\ files' = r2.files
                               /\ settings' = SetMapping(settings, i, moved)
                               /\ last' = MappingEvent("editDirectory", i, r2,
                                             Mappings(settings), mapping.tags,
                                             mapping.tags)
              ELSE /\ settings' = SetMapping(settings, i, moved)
                   /\ files' = files
                   /\ last' = Event("editDirectory", 0, <<>>, NoResult,
                                    Mappings(settings))

\* blur of a row's tags field (the confirmation is accepted)
EditMappingTags(i, newTagsString) ==
    /\ Step
    /\ i \in 1..Len(Mappings(settings))
    /\ LET mapping == Mappings(settings)[i]
           originalTags == Sort(mapping.tags)
           newTags == Sort(parseTagsFromString(newTagsString))
           tagsChanged == originalTags # newTags
           edited == [mapping EXCEPT !.tags = newTags]
       IN  /\ settings' = SetMapping(settings, i, edited)
           /\ IF tagsChanged /\ originalTags # <<>> /\ mapping.directory # <<>>
              THEN \E order \in Orders(files) :
                      LET r == updateTagsForMapping(files, order, edited, originalTags)
                      IN  /\ files' = r.files
                          /\ last' = MappingEvent("updateTags", i, r, Mappings(settings),
                                               originalTags, newTags)
              ELSE IF tagsChanged /\ originalTags = <<>> /\ mapping.directory # <<>>
                      /\ newTags # <<>>
              THEN \E order \in Orders(files) :
                      LET r == applyTagsForMapping(files, order, edited)
                      IN  /\ files' = r.files
                          /\ last' = MappingEvent("applyTags", i, r, Mappings(settings),
                                               <<>>, newTags)
              ELSE /\ files' = files
                   /\ last' = Event("editTags", 0, <<>>, NoResult, Mappings(settings))

\* a row's "Remove" button (the confirmation is accepted)
RemoveMapping(i) ==
    /\ Step
    /\ i \in 1..Len(Mappings(settings))
    /\ \E order \in Orders(files) :
          LET mapping == Mappings(settings)[i]
              r == removeTagsForMapping(files, order, mapping)
          IN  /\ files' = r.files
              /\ settings' = IF r.threw THEN settings
                             ELSE [settings EXCEPT !.directoryTagMappings =
                                      Splice(Mappings(settings), i)]
              /\ last' = MappingEvent("removeMapping", i, r, Mappings(settings),
                                   mapping.tags, <<>>)

\* where a note is created, and with what frontmatter
CreateDirs == { <<>>, <<"a", "/", "b">>, <<"a", "/", "b", "c">>,
                <<"a", "/", "b", "/", "c">> }

CreateContents ==
    { <<"ok", NoTags>>, <<"ok", TagList(<<T_x, T_y>>)>>,
      <<"malformed", TagList(<<T_x, T_y>>)>> }

Next ==
    \/ \E d \in Docs, dir \in CreateDirs, c \in CreateContents :
          Create(d, dir, c[1], c[2])
    \/ \E d \in Docs, dir \in Dirs : \E name \in FileNames(d) : Rename(d, dir, name)
    \/ CleanAndReapply
    \/ CompleteReset
    \/ RemoveFolderTagsAll
    \/ RemoveCustomTagsAll
    \/ \E v \in Depths : SetFolderDepth(v)
    \/ \E v \in {<<>>, <<"p">>} : SetTagPrefix(v)
    \/ \E v \in {<<>>, <<"s">>} : SetTagSuffix(v)
    \/ AddMapping
    \/ \E i \in 1..MaxMappings, dir \in DirInputs : EditMappingDirectory(i, dir)
    \/ \E i \in 1..MaxMappings, str \in TagInputs : EditMappingTags(i, str)
    \/ \E i \in 1..MaxMappings : RemoveMapping(i)

Spec == Init /\ [][Next]_vars

(***************************************************************************)
(* Claims                                                                  *)
(***************************************************************************)
P_abn == <<"a", "/", "b", "/", "n">>
P_acn == <<"a", "/", "c", "/", "n">>
TagB == <<"b">>
TagC == <<"c">>

\* the tag list of note d, as the callbacks read it
TagsOf(fs, d) == ReadTags(fs[d].tags)

\* C1 (as claimed): after a rename of a note whose frontmatter is an object,
\* its tag list is the list the handler found, without the tags of
\* resolve(oldPath), followed by the tags of resolve(newPath) not yet
\* present - also when the new path is at the root
C1_MoveReconciles ==
    [][ (last'.op = "move" /\ files'[last'.d].yaml = "ok" /\ ~last'.threw) =>
          LET d == last'.d
              current == IF last'.ran THEN last'.before ELSE TagsOf(files, d)
          IN  TagsOf(files', d) =
                  Reconcile(current, getAllTags(settings', last'.oldPath),
                            getAllTags(settings', files'[d].path)) ]_vars

\* "Last1" with no custom mappings
Last1NoMappings ==
    /\ build = "depth"
    /\ settings.folderDepth = "1"
    /\ settings.tagPrefix = <<>> /\ settings.tagSuffix = <<>>
    /\ Mappings(settings) = <<>>

MovedFromAbToAc ==
    /\ last.op = "move" /\ last.ran
    /\ last.oldPath = P_abn /\ files[last.d].path = P_acn
    /\ last.before = <<TagB, T_x>>

\* the position of the first occurrence of t in a (0: none)
IndexOf(a, t) ==
    IF Includes(a, t) THEN CHOOSE i \in 1..Len(a) : a[i] = t /\ \A j \in 1..(i - 1) : a[j] # t
    ELSE 0

\* C2 (as claimed): a/b/note -> a/c/note under Last1 turns ["b","x"] into
\* ["c","x"], and a tag that both resolutions give keeps its position
C2_MoveExampleAsClaimed ==
    /\ (Last1NoMappings /\ MovedFromAbToAc) => TagsOf(files, last.d) = <<TagC, T_x>>
    /\ (last.op = "move" /\ last.ran) =>
          \A t \in Elems(getAllTags(settings, last.oldPath))
                     \cap Elems(getAllTags(settings, files[last.d].path)) :
              Includes(last.before, t) =>
                  IndexOf(TagsOf(files, last.d), t) = IndexOf(last.before, t)

\* C2 (amended): the move yields ["x","c"]: the tags that are not of the old
\* resolution keep their order, and every tag of the new resolution that is
\* not among them follows them - a tag of both resolutions is still there,
\* but behind the tags that stayed
C2_MoveAppendsNewTags ==
    /\ (Last1NoMappings /\ MovedFromAbToAc) => TagsOf(files, last.d) = <<T_x, TagC>>
    /\ (last.op = "move" /\ last.ran) =>
          LET old  == getAllTags(settings, last.oldPath)
              new  == getAllTags(settings, files[last.d].path)
              kept == SelectSeq(last.before, LAMBDA t : t \notin Elems(old))
              now  == TagsOf(files, last.d)
          IN  /\ SubSeq(now, 1, Len(kept)) = kept
              /\ Elems(now) = Elems(kept) \cup Elems(new)
              /\ \A t \in Elems(old) \cap Elems(new) :
                    /\ Includes(now, t)
                    /\ \A i \in 1..Len(kept) : IndexOf(now, t) > i

C2_Witness ==
    Last1NoMappings /\ MovedFromAbToAc /\ TagsOf(files, last.d) = <<T_x, TagC>>

\* the mappings an event added to the store (sub-directory inheritance)
AddedMappings(before, after) ==
    SubSeq(Mappings(after), Len(Mappings(before)) + 1, Len(Mappings(after)))

\* the tag strings the operation recorded in ev computes for note d, where s
\* and fs are the settings and the notes it started from, and s2 and fs2 those
\* it left
ComputedTags(ev, d, s, fs, s2, fs2) ==
    IF ev.op \in {"create", "move"}
    THEN Elems(ConcatTags(AddedMappings(s, s2)))
           \cup (IF d = ev.d
                 THEN Elems(getAllTags(s2, fs2[d].path))
                        \cup (IF ev.op = "move" THEN Elems(getAllTags(s2, ev.oldPath))
                              ELSE {})
                 ELSE {})
    ELSE IF ev.op \in {"rerun", "completeReset", "removeFolderTags", "removeCustomTags"}
    THEN Elems(getAllTags(s, fs[d].path))
    ELSE Elems(ev.tagsA) \cup Elems(ev.tagsB)

Without(tags, computed) == SelectSeq(tags, LAMBDA t : t \notin computed)

\* C3: whatever the operation - create, move, rerun, complete reset, the
\* removal buttons, the bulk operations of a mapping edit - the tags of a
\* note that the operation did not compute are all still there afterwards,
\* in the same relative order (for a created note: the tags its transaction
\* found)
C3_UnrelatedTagsKept ==
    [][ \A d \in Docs :
          LET computed == ComputedTags(last', d, settings, files, settings', files')
          IN  /\ (files[d].exists /\ files'[d].exists) =>
                    \/ files'[d].tags = files[d].tags
                    \/ Without(TagsOf(files', d), computed)
                         = Without(TagsOf(files, d), computed)
              /\ (last'.op = "create" /\ d = last'.d /\ last'.ran) =>
                    Without(TagsOf(files', d), computed)
                        = Without(last'.before, computed) ]_vars

\* a move took tags out of a note that had two other tags around them
C3_Witness ==
    /\ last.op = "move" /\ last.ran
    /\ Len(last.before) = 4
    /\ TagsOf(files, last.d) # last.before
    /\ SubSeq(TagsOf(files, last.d), 1, 2) = <<T_x, T_y>>

\* C4 (as claimed): once the create handler has run for a note whose
\* frontmatter is an object, every tag of resolve(path) - taken after any
\* inheritance - is in its tag list, and the list is the one the handler
\* found followed by the tags of resolve(path) that were missing, in order
C4_CreateAddsResolvedTags ==
    (last.op = "create" /\ files[last.d].yaml = "ok") =>
        LET resolved == getAllTags(settings, files[last.d].path)
            now == TagsOf(files, last.d)
        IN  /\ \A t \in Elems(resolved) : Includes(now, t)
            /\ last.ran =>
                  now = last.before
                          \o SelectSeq(Dedupe(resolved),
                                       LAMBDA t : ~Includes(last.before, t))

(***************************************************************************)
(* The engine on its own: one reconciliation applied to a tag list and then *)
(* to its own result, and a mapping's tags applied to a note, then removed. *)
(***************************************************************************)
MaxProbeLen == 2

ProbeTags == { <<"p">>, <<"q">>, T_x }

SeqsUpTo(S, n) == UNION {[1..k -> S] : k \in 0..n}

ProbeFields ==
    {NoTags}
    \cup {TagList(t) : t \in SeqsUpTo(ProbeTags, MaxProbeLen)}
    \cup {[kind |-> "string", val |-> <<"x", ",", " ", "y">>]}

\* paths of notes at the root and below it, and what a prefix or suffix can be
ProbePaths ==
    { <<"n">>, <<"/", "n">>, <<"n", ".", "m", "d">>, <<"a", "/", "n">>,
      <<"a", "/", "b", "/", "n">>, <<"a", "/", "b", "/", "c", "/", "n">>,
      <<"m", "a", "/", "s", "/", "l", "/", "n", ".", "m", "d">> }

ProbeAffixes == { <<>>, <<"p">>, <<"#", "/">> }

ProbeInputs ==
    {[kind |-> "reconcile", stage |-> 0, existing |-> TagList(t), remove |-> r,
      add |-> a, first |-> NoTags, second |-> NoTags] :
        t \in SeqsUpTo(ProbeTags, MaxProbeLen),
        r \in SeqsUpTo({<<"p">>, <<"q">>}, MaxProbeLen),
        a \in SeqsUpTo({<<"p">>, <<"q">>}, MaxProbeLen)}
    \cup
    {[kind |-> "roundtrip", stage |-> 0, existing |-> f, remove |-> a,
      add |-> a, first |-> NoTags, second |-> NoTags] :
        f \in ProbeFields, a \in SeqsUpTo(ProbeTags, MaxProbeLen)}
    \cup
    {[kind |-> "derive", stage |-> 0, path |-> path, first |-> <<>>,
      second |-> <<>>,
      policy |-> [DEFAULT_SETTINGS EXCEPT !.folderDepth = depth,
                                         !.tagPrefix = prefix,
                                         !.tagSuffix = suffix]] :
        path \in ProbePaths, depth \in Depths,
        prefix \in ProbeAffixes, suffix \in ProbeAffixes}

\* the one note of the round trip, under the mapping of directory "a"
ProbeVault(field) == [d \in Docs |-> IF d = 1 THEN File(P_abn, "ok", field) ELSE NoFile]

EngineInit ==
    /\ build = "inherit"
    /\ settings = DEFAULT_SETTINGS
    /\ files = [d \in Docs |-> NoFile]
    /\ last = Event("init", 0, <<>>, NoResult, <<>>)
    /\ ops = 0
    /\ probe \in ProbeInputs
    /\ handlers = [h \in Docs |-> Idle]

ReconcileOnce ==
    /\ probe.kind = "reconcile" /\ probe.stage = 0
    /\ probe' = [probe EXCEPT !.stage = 1,
                    !.first = TagList(Reconcile(ReadTags(probe.existing),
                                                probe.remove, probe.add))]
    /\ UNCHANGED <<build, settings, files, last, ops, handlers>>

ReconcileAgain ==
    /\ probe.kind = "reconcile" /\ probe.stage = 1
    /\ probe' = [probe EXCEPT !.stage = 2,
                    !.second = TagList(Reconcile(ReadTags(probe.first),
                                                 probe.remove, probe.add))]
    /\ UNCHANGED <<build, settings, files, last, ops, handlers>>

ApplyMappingTags ==
    /\ probe.kind = "roundtrip" /\ probe.stage = 0
    /\ probe' = [probe EXCEPT !.stage = 1,
                    !.first = applyTagsForMapping(ProbeVault(probe.existing), <<1>>,
                                  Mapping(<<"a">>, probe.add)).files[1].tags]
    /\ UNCHANGED <<build, settings, files, last, ops, handlers>>

RemoveMappingTags ==
    /\ probe.kind = "roundtrip" /\ probe.stage = 1
    /\ probe' = [probe EXCEPT !.stage = 2,
                    !.second = removeTagsForMapping(ProbeVault(probe.first), <<1>>,
                                   Mapping(<<"a">>, probe.remove)).files[1].tags]
    /\ UNCHANGED <<build, settings, files, last, ops, handlers>>

DeriveFolderTags ==
    /\ probe.kind = "derive" /\ probe.stage = 0
    /\ probe' = [probe EXCEPT !.stage = 1,
                    !.first = getFolderTagsFromPath_depth(probe.policy, probe.path),
                    !.second = getFolderTagsFromPath_inherit(probe.path)]
    /\ UNCHANGED <<build, settings, files, last, ops, handlers>>

EngineNext ==
    \/ ReconcileOnce
    \/ ReconcileAgain
    \/ ApplyMappingTags
    \/ RemoveMappingTags
    \/ DeriveFolderTags

EngineSpec == EngineInit /\ [][EngineNext]_vars

Count(a, t) == Len(SelectSeq(a, LAMBDA u : u = t))

\* the same tags, each as often, in some order
SameTags(a, b) == \A t \in Elems(a) \cup Elems(b) : Count(a, t) = Count(b, t)

ReconciledTwice == probe.kind = "reconcile" /\ probe.stage = 2

\* C5 (as claimed): a reconciliation applied to its own result gives the
\* identical ordered list, whatever the overlap of remove and add
C5_IdempotentAsClaimed ==
    ReconciledTwice => ReadTags(probe.second) = ReadTags(probe.first)

\* C5 (amended): a reconciliation applied to its own result gives the same
\* tags, each as often; the ordered list is identical when remove and add
\* share no tag or every tag of add is a tag of remove (a rerun), and when
\* they overlap in part the shared tags may change places
C5_IdempotentUpToOrder ==
    ReconciledTwice =>
        /\ SameTags(ReadTags(probe.second), ReadTags(probe.first))
        /\ (Elems(probe.add) \cap Elems(probe.remove) = {}
              \/ Elems(probe.add) \subseteq Elems(probe.remove))
             => ReadTags(probe.second) = ReadTags(probe.first)

\* remove = [p], add = [p, q] on the empty list: [p, q], then [q, p]
C5_Witness ==
    /\ ReconciledTwice
    /\ probe.remove = <<<<"p">>>> /\ probe.add = <<<<"p">>, <<"q">>>>
    /\ ReadTags(probe.first) = <<<<"p">>, <<"q">>>>
    /\ ReadTags(probe.second) = <<<<"q">>, <<"p">>>>

\* C6: a mapping's tags A applied to a note and then removed from it leave
\* the note's tag list T as it was, when no tag of A was in T; and an empty
\* T comes back as a note with no tags field
C6_ApplyThenRemove ==
    (probe.kind = "roundtrip" /\ probe.stage = 2
       /\ Elems(probe.add) \cap Elems(ReadTags(probe.existing)) = {}) =>
        /\ ReadTags(probe.second) = ReadTags(probe.existing)
        /\ ReadTags(probe.existing) = <<>> => probe.second.kind = "absent"

\* two tags were added behind [x] and taken out again
C6_Witness ==
    /\ probe.kind = "roundtrip" /\ probe.stage = 2
    /\ ReadTags(probe.existing) = <<T_x>>
    /\ Len(ReadTags(probe.first)) = 3
    /\ ReadTags(probe.second) = <<T_x>>

\* C7: a complete reset takes from every note whose frontmatter is an object
\* exactly the tags of resolve(path), resolved against the store as it was
\* before the reset, and leaves the others in order; the store is empty
\* afterwards, also when a note failed
C7_CompleteReset ==
    [][ last'.op = "completeReset" =>
          /\ Mappings(settings') = <<>>
          /\ \A d \in Docs :
                (files[d].exists /\ files[d].yaml = "ok") =>
                    /\ files'[d].path = files[d].path
                    /\ TagsOf(files', d) =
                          SelectSeq(TagsOf(files, d),
                                    LAMBDA t : t \notin Elems(getAllTags(settings,
                                                                  files[d].path))) ]_vars

\* [x, a, t, y] in directory a under the mapping a -> [t, b] became [x, y],
\* next to a note that failed, and the store is empty
C7_Witness ==
    /\ last.op = "completeReset"
    /\ last.preMaps # <<>> /\ Mappings(settings) = <<>>
    /\ files[1].exists /\ TagsOf(files, 1) = <<T_x, T_y>>
    /\ files[2].exists /\ files[2].yaml = "throws"

OldDir == DirOf(last.oldPath)
NewDir == DirOf(files[last.d].path)

\* C9 (as claimed): after a rename event with different directories, every
\* mapping whose directory is oldDir or below it has oldDir replaced by
\* newDir, the rest of the directory and the tags as they were
C9_DescendantsRewritten ==
    last.op = "move" =>
        LET oldDir == OldDir
            newDir == NewDir
        IN  oldDir # newDir =>
              \A i \in 1..Len(last.preMaps) :
                LET m  == last.preMaps[i]
                    nm == normalizePath(m.directory)
                IN  (nm = oldDir \/ StartsWith(nm, oldDir \o <<SLASH>>)) =>
                        /\ Mappings(settings)[i].directory
                              = newDir \o Substring(nm, Len(oldDir))
                        /\ Mappings(settings)[i].tags = m.tags

\* C9 (amended): a mapping whose directory is oldDir is rewritten to newDir;
\* a mapping below oldDir has oldDir replaced by newDir in the build with the
\* folder depth policies and keeps its directory in the build with
\* sub-directory inheritance; no mapping's tags change
C9_RenamePropagation ==
    last.op = "move" =>
        LET oldDir == OldDir
            newDir == NewDir
        IN  oldDir # newDir =>
              \A i \in 1..Len(last.preMaps) :
                LET m   == last.preMaps[i]
                    nm  == normalizePath(m.directory)
                    now == Mappings(settings)[i]
                IN  /\ now.tags = m.tags
                    /\ now.directory =
                          IF nm = oldDir THEN newDir
                          ELSE IF build = "depth" /\ StartsWith(nm, oldDir \o <<SLASH>>)
                          THEN newDir \o Substring(nm, Len(oldDir))
                          ELSE m.directory

\* a/b -> [t] and a/b/c -> [u] became a/c -> [t] and a/c/c -> [u]
C9_Witness ==
    /\ last.op = "move" /\ build = "depth"
    /\ OldDir = <<"a", "/", "b">> /\ NewDir = <<"a", "/", "c">>
    /\ Len(last.preMaps) = 2
    /\ last.preMaps[2].directory = <<"a", "/", "b", "/", "c">>
    /\ Mappings(settings)[1] = Mapping(<<"a", "/", "c">>, <<T_t>>)
    /\ Mappings(settings)[2] = Mapping(<<"a", "/", "c", "/", "c">>, <<T_u>>)

IsPrefix(a, b) == Len(a) <= Len(b) /\ SubSeq(b, 1, Len(a)) = a

Segments(dir) == SelectSeq(Split(dir, SLASH), LAMBDA x : x # <<>>)

\* the mapping's directory is the directory with these segments or one above
AtOrAbove(m, segments) ==
    /\ Segments(m.directory) # <<>>
    /\ IsPrefix(Segments(m.directory), segments)

\* C10: for every note of the vault the lookup gives, in store order, the
\* tags of every mapping whose directory is the note's directory or an
\* ancestor of it, segment by segment: a/b is not above a/bc, and a mapping
\* with the empty directory gives nothing
C10_Lookup ==
    \A d \in Docs :
        files[d].exists =>
            LET segments == Segments(DirOf(files[d].path))
            IN  getCustomDirectoryTags(settings, files[d].path)
                    = ConcatTags(SelectSeq(Mappings(settings),
                                           LAMBDA m : AtOrAbove(m, segments)))

\* the mappings a/b -> [t] and a/b/c -> [u]: both are found for the note in
\* a/b/c, neither for the note just created in a/bc
C10_Witness ==
    /\ last.op = "create"
    /\ Len(Mappings(settings)) = 2
    /\ Mappings(settings)[1] = Mapping(<<"a", "/", "b">>, <<T_t>>)
    /\ files[1].exists /\ files[1].path = PathIn(<<"a", "/", "b", "c">>, 1)
    /\ getCustomDirectoryTags(settings, files[1].path) = <<>>
    /\ files[2].exists
    /\ getCustomDirectoryTags(settings, files[2].path) = <<T_t, T_u>>

NoDuplicates(a) == \A i, j \in 1..Len(a) : i # j => a[i] # a[j]

\* C11: for every note of the vault, resolve(path) has the tags of the
\* folder-derived list followed by the custom mapping tags, each once, in the
\* order of their first occurrences; it is a function of the settings and
\* the path alone, so two evaluations under the same settings agree
C11_ResolveDedupes ==
    \A d \in Docs :
        files[d].exists =>
            LET both == getFolderTagsFromPath(settings, files[d].path)
                          \o getCustomDirectoryTags(settings, files[d].path)
                resolved == getAllTags(settings, files[d].path)
            IN  /\ NoDuplicates(resolved)
                /\ Elems(resolved) = Elems(both)
                /\ \A i, j \in 1..Len(resolved) :
                      i < j => IndexOf(both, resolved[i]) < IndexOf(both, resolved[j])

\* folder tags [a, b] and the mapping a -> [t, b]: a rerun wrote [a, b, t]
C11_Witness ==
    /\ last.op = "rerun"
    /\ files[1].exists
    /\ getAllTags(settings, files[1].path) = <<<<"a">>, TagB, T_t>>
    /\ Len(getCustomDirectoryTags(settings, files[1].path)) = 2
    /\ TagsOf(files, 1) = <<T_x, <<"a">>, TagB, T_t>>

\* the mapping's directory is strictly above the directory dir
StrictlyAbove(m, dir) ==
    /\ AtOrAbove(m, Segments(dir))
    /\ Len(Segments(m.directory)) < Len(Segments(dir))

\* the directory a create event hands to handleNewSubdirectory
CreatedDir == DirOf(files[last.d].path)

HasExact(ms, dir) == \E i \in 1..Len(ms) : Segments(ms[i].directory) = Segments(dir)

\* the mappings strictly above dir that have a tag, by index
TaggedAbove(ms, dir) ==
    {i \in 1..Len(ms) : StrictlyAbove(ms[i], dir) /\ ms[i].tags # <<>>}

\* C12 (as claimed): when a note is created in a directory, the store is
\* unchanged if a mapping has exactly that directory; otherwise, if a mapping
\* strictly above it has tags, one mapping for the directory with a copy of
\* such a mapping's tags is appended; otherwise the store is unchanged
C12_InheritForNewDirectory ==
    (last.op = "create" /\ build = "inherit") =>
        LET dir == CreatedDir
            pre == last.preMaps
        IN  dir # <<>> =>
              IF HasExact(pre, dir) THEN Mappings(settings) = pre
              ELSE IF TaggedAbove(pre, dir) # {}
              THEN \E i \in TaggedAbove(pre, dir) :
                      Mappings(settings) = Append(pre, Mapping(dir, pre[i].tags))
              ELSE Mappings(settings) = pre

\* C13 (as claimed): the tags a new directory inherits are those of the
\* first mapping, in store order, that is strictly above it and has a tag -
\* also when a mapping strictly above it with no tags comes earlier
C13_FirstTaggedAncestor ==
    (last.op = "create" /\ build = "inherit") =>
        LET dir == CreatedDir
            pre == last.preMaps
            tagged == TaggedAbove(pre, dir)
        IN  (dir # <<>> /\ ~HasExact(pre, dir) /\ tagged # {}) =>
              LET first == CHOOSE i \in tagged : \A j \in tagged : i <= j
                  now == Mappings(settings)
              IN  /\ Len(now) = Len(pre) + 1
                  /\ now[Len(now)].tags = pre[first].tags

\* C14 (as claimed): in every reachable state of the store no two mappings
\* have the same normalized directory
C14_DirectoriesDistinct ==
    \A i, j \in 1..Len(Mappings(settings)) :
        i # j => normalizePath(Mappings(settings)[i].directory)
                   # normalizePath(Mappings(settings)[j].directory)

MappingOps == {"removeMapping", "editDirectory", "updateTags", "applyTags"}

\* the note's directory is the mapping's directory or below it
NoteUnder(file, m) == AtOrAbove(m, Segments(DirOf(file.path)))

\* C15 (as claimed): a bulk operation for a mapping changes only notes in
\* the mapping's directory (old or new) or below it; what it removes from a
\* note are tags of that mapping and what it adds are tags of that mapping;
\* and it never removes a tag that the note's folders give or that another
\* mapping above the note gives, also when the mapping has an equal tag
C15_MappingFrame ==
    [][ (last'.op \in MappingOps /\ last'.d # 0) =>
          LET i    == last'.d
              pre  == last'.preMaps
              dirs == {pre[i]}
                        \cup (IF last'.op = "editDirectory"
                              THEN {Mappings(settings')[i]} ELSE {})
          IN  \A d \in Docs :
                files[d].exists =>
                  /\ (\A m \in dirs : ~NoteUnder(files[d], m)) => files'[d] = files[d]
                  /\ \A t \in Elems(TagsOf(files, d)) \ Elems(TagsOf(files', d)) :
                        /\ Includes(last'.tagsA, t)
                        /\ ~Includes(getFolderTagsFromPath(settings, files[d].path), t)
                        /\ \A k \in 1..Len(pre) :
                              (k # i /\ NoteUnder(files[d], pre[k]))
                                  => ~Includes(pre[k].tags, t)
                  /\ \A t \in Elems(TagsOf(files', d)) \ Elems(TagsOf(files, d)) :
                        Includes(last'.tagsB, t) ]_vars

\* C16 (as claimed): an operation that leaves a note's tag list as it was
\* leaves the note's tags field as it was - nothing is written
C16_EqualResultWritesNothing ==
    [][ \A d \in Docs :
          (/\ files[d].exists
           /\ files'[d].exists
           /\ TagsOf(files', d) = TagsOf(files, d))
              => files'[d].tags = files[d].tags ]_vars

\* C17: a tags field that an operation has written is absent or a list with
\* at least one tag - a note left with no tags loses the field
C17_NoEmptyTagList ==
    [][ \A d \in Docs :
          (files'[d].exists /\ files'[d].tags # files[d].tags)
              => \/ files'[d].tags = NoTags
                 \/ (files'[d].tags.kind = "list" /\ files'[d].tags.val # <<>>) ]_vars

\* completeReset has taken the only tag of the note a/b/n
C17_Witness ==
    /\ last.op = "completeReset"
    /\ last.count = 1
    /\ files[1].exists
    /\ files[1].path = P_abn
    /\ files[1].yaml = "ok"
    /\ files[1].tags = NoTags

\* the note's transaction fails: it has tags to resolve and processFrontMatter
\* rejects
Fails(s, file) == file.yaml = "throws" /\ getAllTags(s, file.path) # <<>>

\* C18: cleanAndReapplyAllTags and completeReset return normally whichever
\* notes fail; every note that has tags to resolve and an object frontmatter
\* is processed, in whatever order the notes come; and the count leaves the
\* failed notes out
C18_FailureIsolated ==
    [][ (last'.op \in {"rerun", "completeReset"}) =>
          /\ ~last'.threw
          /\ last'.count <=
                Cardinality({d \in Docs : files[d].exists /\ ~Fails(settings, files[d])})
          /\ \A d \in Docs :
                LET resolved == getAllTags(settings, files[d].path)
                    existing == TagsOf(files, d)
                IN  IF files[d].exists /\ files[d].yaml = "ok" /\ resolved # <<>>
                    THEN files'[d].tags =
                            IF last'.op = "rerun"
                            THEN TagList(FilterOut(existing, resolved) \o resolved)
                            ELSE IF FilterOut(existing, resolved) = <<>> THEN NoTags
                            ELSE TagList(FilterOut(existing, resolved))
                    ELSE files'[d] = files[d] ]_vars

\* completeReset has met the failing note a/b/c/m, and has processed and
\* counted the note a/n
C18_Witness ==
    /\ last.op = "completeReset"
    /\ ~last.threw
    /\ last.count = 1
    /\ files[2].exists
    /\ files[2].yaml = "throws"
    /\ files[1].exists
    /\ files[1].path = PathIn(<<"a">>, 1)
    /\ ~Includes(TagsOf(files, 1), <<"a">>)

\* C19 (as claimed): the count that cleanAndReapplyAllTags or completeReset
\* returns is the number of notes whose tag list the operation has changed
C19_CountsModifiedNotes ==
    [][ (last'.op \in {"rerun", "completeReset"} /\ build = "inherit") =>
          last'.count =
              Cardinality({d \in Docs : /\ files[d].exists
                                        /\ TagsOf(files', d) # TagsOf(files, d)}) ]_vars

Derived == probe.kind = "derive" /\ probe.stage = 1

\* the path has a file name and no directory before it
RootLevel(path) == Len(Segments(path)) = 1

\* C20: for a note at the root the folder-tag derivation gives no tag, under
\* every policy and whatever the prefix and the suffix
C20_RootHasNoFolderTags ==
    (Derived /\ RootLevel(probe.path)) => probe.first = <<>>

\* the derivation has run for a root-level path under the policy that makes
\* one tag of each directory, with a prefix and a suffix set
C20_Witness ==
    /\ Derived
    /\ RootLevel(probe.path)
    /\ probe.policy.folderDepth = "allsplit"
    /\ probe.policy.tagPrefix # <<>>
    /\ probe.policy.tagSuffix # <<>>
    /\ probe.first = <<>>

\* the directories of the probed path, from the root down
ProbeDirs == LET seg == Segments(probe.path) IN SubSeq(seg, 1, Len(seg) - 1)

\* prefix + segment + suffix under the probed policy
Wrapped(x) == probe.policy.tagPrefix \o x \o probe.policy.tagSuffix

\* C21: for a path with exactly one directory the policies "1", "2split" and
\* "allsplit" all give the single tag prefix + directory + suffix
C21_OneSegmentAgrees ==
    (/\ Derived
     /\ Len(ProbeDirs) = 1
     /\ probe.policy.folderDepth \in {"1", "2split", "allsplit"})
        => probe.first = <<Wrapped(ProbeDirs[1])>>

C21_Witness ==
    /\ Derived
    /\ probe.path = <<"a", "/", "n">>
    /\ probe.policy.folderDepth = "2split"
    /\ probe.policy.tagPrefix = <<"p">>
    /\ probe.policy.tagSuffix = <<"#", "/">>
    /\ probe.first = <<<<"p", "a", "#", "/">>>>

\* C22: under "2split" a path with two directories or more gives exactly two
\* tags, the wrapped last directory and then the wrapped one before it
C22_Last2Split ==
    (Derived /\ Len(ProbeDirs) >= 2 /\ probe.policy.folderDepth = "2split")
        => probe.first = <<Wrapped(ProbeDirs[Len(ProbeDirs)]),
                           Wrapped(ProbeDirs[Len(ProbeDirs) - 1])>>

C22_Witness ==
    /\ Derived
    /\ probe.path = <<"a", "/", "b", "/", "c", "/", "n">>
    /\ probe.policy.folderDepth = "2split"
    /\ probe.policy.tagPrefix = <<"p">>
    /\ probe.first = <<<<"p", "c">>, <<"p", "b">>>>

\* C23: under "allsplit" there is one tag for each directory of the path, the
\* wrapped directory, from the root down, and none for the file name; the
\* build without policies gives the directories themselves in that order
C23_AllSplit ==
    Derived =>
        /\ probe.second = ProbeDirs
        /\ probe.policy.folderDepth = "allsplit" =>
              /\ Len(probe.first) = Len(ProbeDirs)
              /\ \A i \in 1..Len(ProbeDirs) : probe.first[i] = Wrapped(ProbeDirs[i])

C23_Witness ==
    /\ Derived
    /\ probe.path = <<"m", "a", "/", "s", "/", "l", "/", "n", ".", "m", "d">>
    /\ probe.policy.folderDepth = "allsplit"
    /\ probe.policy.tagPrefix = <<>>
    /\ probe.policy.tagSuffix = <<>>
    /\ probe.first = <<<<"m", "a">>, <<"s">>, <<"l">>>>

\* C24: a note whose frontmatter is not an object keeps its tags field through
\* every operation - a created one keeps what it was created with - and no
\* operation fails unless processFrontMatter rejects for some note
C24_MalformedSkipped ==
    [][ /\ \A d \in Docs :
             (files[d].exists /\ files[d].yaml = "malformed")
                 => /\ files'[d].exists
                    /\ files'[d].yaml = "malformed"
                    /\ files'[d].tags = files[d].tags
        /\ \A d \in Docs :
             (~files[d].exists /\ files'[d].exists /\ files'[d].yaml = "malformed")
                 => files'[d].tags = TagList(<<T_x, T_y>>)
        /\ last'.threw => \E d \in Docs : files[d].exists /\ files[d].yaml = "throws"
      ]_vars

\* the mapping of a, with the tag b, has been removed: the note a/b/c/m lost
\* its tag, the malformed note a/b/n kept its tags b and x
C24_Witness ==
    /\ last.op = "removeMapping"
    /\ ~last.threw
    /\ last.count = 1
    /\ Includes(last.tagsA, <<"b">>)
    /\ files[1] = N_abMalformed

\* C25: whatever an operation does to a note, the fields of its frontmatter
\* other than tags are afterwards what they were, and a created note keeps
\* the fields it was created with
C25_OtherFieldsKept ==
    [][ \A d \in Docs :
          files'[d].exists =>
              files'[d].other = IF files[d].exists THEN files[d].other
                                ELSE OtherFields ]_vars

\* the row of directory a has been given the tag b: the tag was applied to
\* the note a/n, which has it after its own
C25_Witness ==
    /\ last.op = "applyTags"
    /\ last.count >= 1
    /\ files[1].exists
    /\ files[1].other = OtherFields
    /\ files[1].tags = TagList(<<T_x, <<"a">>, T_t, T_y, <<"b">>>>)

\* C26: when the rename handler reconciles the moved note, the store already
\* has the mappings of the old directory at the new one, and the tags taken
\* out and put in are those the store gives for the old and the new path
\* after that propagation and any inheritance; no other note is reconciled -
\* another note changes only by the tags of a mapping just inherited, put
\* after its own
C26_PropagationBeforeReconcile ==
    [][ (last'.op = "move" /\ last'.ran) =>
          LET d      == last'.d
              oldDir == DirOf(last'.oldPath)
              newDir == DirOf(files'[d].path)
              kept   == SelectSeq(last'.before,
                            LAMBDA t : ~Includes(getAllTags(settings', last'.oldPath), t))
              new    == SelectSeq(getAllTags(settings', files'[d].path),
                            LAMBDA t : ~Includes(kept, t))
              inherited == ConcatTags(AddedMappings(settings, settings'))
          IN  /\ oldDir # newDir =>
                    \A i \in 1..Len(last'.preMaps) :
                        normalizePath(last'.preMaps[i].directory) = oldDir
                            => Mappings(settings')[i].directory = newDir
              /\ TagsOf(files', d) = kept \o new
              /\ \A e \in Docs \ {d} :
                    \/ files'[e] = files[e]
                    \/ /\ IsPrefix(TagsOf(files, e), TagsOf(files', e))
                       /\ \A t \in Elems(TagsOf(files', e)) \ Elems(TagsOf(files, e)) :
                             Includes(inherited, t) ]_vars

\* the note a/b/n was moved to a/c: the mapping of a/b is now the mapping of
\* a/c, so its tag t was not taken out as a tag of the old path and was put
\* in as a tag of the new one
C26_Witness ==
    /\ last.op = "move" /\ last.ran
    /\ build = "inherit"
    /\ OldDir = <<"a", "/", "b">> /\ NewDir = <<"a", "/", "c">>
    /\ Len(last.preMaps) = 2
    /\ last.preMaps[1] = Mapping(<<"a", "/", "b">>, <<T_t>>)
    /\ Mappings(settings)[1] = Mapping(<<"a", "/", "c">>, <<T_t>>)
    /\ TagsOf(files, 1) = <<T_x, <<"a">>, <<"c">>, T_t>>

\* C27 (as claimed): "Remove custom tags" takes from a note only tags that
\* the mappings give for its path, and every tag that the note's folders give
\* is still there afterwards, also when a mapping has an equal tag
C27_FolderTagsSurvive ==
    [][ (last'.op = "removeCustomTags") =>
          \A d \in Docs :
             files[d].exists =>
               LET gone == Elems(TagsOf(files, d)) \ Elems(TagsOf(files', d))
               IN  /\ \A t \in gone :
                         Includes(getCustomDirectoryTags(settings, files[d].path), t)
                   /\ \A t \in gone :
                         ~Includes(getFolderTagsFromPath(settings, files[d].path), t)
      ]_vars

\* the mapping's directory is the renamed directory or one below it
Follows(m, oldDir) ==
    /\ Segments(oldDir) # <<>>
    /\ Segments(m.directory) # <<>>
    /\ IsPrefix(Segments(oldDir), Segments(m.directory))

\* C28 (as claimed): after a rename event the mappings the store had are all
\* there, in their order and with their tags; a mapping whose directory is
\* neither the old directory nor below it - a mapping with the empty
\* directory is one, also when the note was moved from the root - is as it
\* was; and when the directory did not change every mapping is as it was
C28_PropagationFrame ==
    last.op = "move" =>
        LET oldDir == OldDir
            newDir == NewDir
            pre    == last.preMaps
            now    == Mappings(settings)
        IN  /\ Len(now) >= Len(pre)
            /\ \A i \in 1..Len(pre) :
                  /\ now[i].tags = pre[i].tags
                  /\ (oldDir = newDir \/ ~Follows(pre[i], oldDir)) => now[i] = pre[i]

(***************************************************************************)
(* The create and rename handlers as the host runs them: a handler runs    *)
(* until it reaches an await whose promise is pending, and another handler *)
(* can run before it resumes. One handler for each note.                   *)
(***************************************************************************)
EventDirs == { <<"a", "/", "b">>, <<"a", "/", "b", "/", "c">> }

EventStores ==
    { <<Mapping(<<"a">>, <<T_t>>)>>,
      <<Mapping(<<"a">>, <<T_t>>), Mapping(<<"a", "/", "b">>, <<T_u>>)>>,
      <<Mapping(<<"a">>, <<>>), Mapping(<<"a", "/", "b">>, <<T_u>>)>> }

EventVaults ==
    { <<NoFile, NoFile>>,
      <<File(PathIn(<<>>, 1), "ok", TagList(<<T_x>>)), NoFile>>,
      <<File(PathIn(<<>>, 1), "ok", TagList(<<T_x>>)),
        File(PathIn(<<>>, 2), "ok", NoTags)>> }

EventInit ==
    /\ build = "inherit"
    /\ \E st \in EventStores :
          /\ settings = [DEFAULT_SETTINGS EXCEPT !.directoryTagMappings = st]
          /\ last = Event("init", 0, <<>>, NoResult, st)
    /\ files \in EventVaults
    /\ ops = 0
    /\ probe = [kind |-> "none"]
    /\ handlers = [h \in Docs |-> Idle]

Suspend(h, local) == handlers' = [handlers EXCEPT ![h] = local]

\* if (dirPath) await this.handleNewSubdirectory(dirPath): the call runs up to
\* its first await - the check, the lookup and the push follow each other
\* with no await between them
EnterNewSubdirectory(h, local, path) ==
    LET normalized == normalizePath(DirOf(path))
        parent     == findParentDirectoryMapping(settings, normalized)
    IN  IF DirOf(path) # <<>>
           /\ ~hasDirectoryMapping(settings, normalized)
           /\ parent # 0 /\ Mappings(settings)[parent].tags # <<>>
        THEN LET newMapping == [directory |-> normalized,
                                tags |-> Mappings(settings)[parent].tags]
             IN  /\ settings' = [settings EXCEPT !.directoryTagMappings =
                                    Append(Mappings(settings), newMapping)]
                 /\ Suspend(h, [local EXCEPT !.pc = "saveSettings",
                                             !.newMapping = <<newMapping>>])
        ELSE /\ settings' = settings
             /\ Suspend(h, [local EXCEPT !.pc = "handleNewSubdirectory"])

\* vault.on("create"): the note appears and its handler starts
OnCreate(h, dir) ==
    /\ handlers[h].pc = "idle"
    /\ ~files[h].exists
    /\ files' = [files EXCEPT ![h] = File(PathIn(dir, h), "ok", TagList(<<T_y>>))]
    /\ EnterNewSubdirectory(h, [Idle EXCEPT !.action = "create"], PathIn(dir, h))
    /\ UNCHANGED <<build, last, ops, probe>>

\* vault.on("rename"): the note has moved and its handler starts with
\* handleDirectoryRename, whose await it is suspended at
OnRename(h, dir) ==
    /\ handlers[h].pc = "idle"
    /\ files[h].exists
    /\ files' = [files EXCEPT ![h].path = PathIn(dir, h)]
    /\ settings' = handleDirectoryRename(settings, files[h].path, PathIn(dir, h))
    /\ Suspend(h, [Idle EXCEPT !.action = "move", !.oldPath = files[h].path,
                               !.pc = "handleDirectoryRename"])
    /\ UNCHANGED <<build, last, ops, probe>>

\* the rename handler resumes: if (dirPath) await this.handleNewSubdirectory(dirPath)
AfterDirectoryRename(h) ==
    /\ handlers[h].pc = "handleDirectoryRename"
    /\ EnterNewSubdirectory(h, handlers[h], files[h].path)
    /\ UNCHANGED <<build, files, last, ops, probe>>

\* handleNewSubdirectory resumes after saveSettings: applyTagsForMapping takes
\* getMarkdownFiles() and starts its loop
AfterSaveSettings(h) ==
    /\ handlers[h].pc = "saveSettings"
    /\ \E order \in Orders(files) :
          Suspend(h, [handlers[h] EXCEPT !.pc = "applyTagsForMapping", !.todo = order])
    /\ UNCHANGED <<build, settings, files, last, ops, probe>>

\* one turn of the loop of applyTagsForMapping: the next note in the mapping's
\* directory gets its processFrontMatter, or the loop ends
ApplyNext(h) ==
    /\ handlers[h].pc = "applyTagsForMapping"
    /\ LET mapping == handlers[h].newMapping[1]
           todo    == handlers[h].todo
           hits    == {i \in 1..Len(todo) : FileInMapping(files[todo[i]], mapping)}
       IN  IF hits = {}
           THEN /\ files' = files
                /\ Suspend(h, [handlers[h] EXCEPT !.pc = "handleNewSubdirectory",
                                                  !.todo = <<>>])
           ELSE LET i == CHOOSE k \in hits : \A j \in hits : k <= j
                IN  /\ files' = [files EXCEPT ![todo[i]] =
                                    ApplyCallback(files[todo[i]], mapping.tags)]
                    /\ Suspend(h, [handlers[h] EXCEPT
                                      !.todo = SubSeq(todo, i + 1, Len(todo))])
    /\ UNCHANGED <<build, settings, last, ops, probe>>

\* applyFolderTag is called: getAllTags(file.path), the early return, and the
\* call of processFrontMatter
EnterApplyFolderTag(h) ==
    /\ handlers[h].pc = "handleNewSubdirectory"
    /\ LET folderTags == getAllTags(settings, files[h].path)
       IN  Suspend(h, [handlers[h] EXCEPT
                          !.pc = IF folderTags = <<>> THEN "done" ELSE "processFrontMatter",
                          !.folderTags = folderTags])
    /\ UNCHANGED <<build, settings, files, last, ops, probe>>

\* the callback of applyFolderTag runs
FrontMatterCallback(h) ==
    /\ handlers[h].pc = "processFrontMatter"
    /\ LET existingTags == ReadTags(files[h].tags)
           remove == IF handlers[h].action = "move" /\ handlers[h].oldPath # <<>>
                     THEN getAllTags(settings, handlers[h].oldPath) ELSE <<>>
       IN  files' = [files EXCEPT ![h].tags =
                        TagList(Reconcile(existingTags, remove, handlers[h].folderTags))]
    /\ Suspend(h, [handlers[h] EXCEPT !.pc = "done"])
    /\ UNCHANGED <<build, settings, last, ops, probe>>

EventNext ==
    \/ \E h \in Docs, dir \in EventDirs : OnCreate(h, dir)
    \/ \E h \in Docs, dir \in EventDirs : OnRename(h, dir)
    \/ \E h \in Docs : AfterDirectoryRename(h)
    \/ \E h \in Docs : AfterSaveSettings(h)
    \/ \E h \in Docs : ApplyNext(h)
    \/ \E h \in Docs : EnterApplyFolderTag(h)
    \/ \E h \in Docs : FrontMatterCallback(h)

EventSpec == EventInit /\ [][EventNext]_vars

\* both handlers have run to their end
HandlersDone == \A h \in Docs : handlers[h].pc = "done"

\* the mappings added since the events began that are mappings of dir
InheritedFor(dir) ==
    {i \in (Len(last.preMaps) + 1)..Len(Mappings(settings)) :
        Segments(Mappings(settings)[i].directory) = Segments(dir)}

\* C29 (as claimed): when the handlers of two notes in the same directory have
\* finished, in whatever order their steps were taken, and the directory had
\* no mapping and a mapping with tags above it when the events began, the
\* store has exactly one inherited mapping of that directory
C29_OneInheritedMapping ==
    (/\ HandlersDone
     /\ DirOf(files[1].path) = DirOf(files[2].path)
     /\ ~HasExact(last.preMaps, DirOf(files[1].path))
     /\ TaggedAbove(last.preMaps, DirOf(files[1].path)) # {})
        => Cardinality(InheritedFor(DirOf(files[1].path))) = 1

\* C30: a note whose tag list has no tag twice has none twice after any
\* operation, and a created note whose transaction found no tag twice has
\* none twice when its handler has run - also when the create made a mapping
\* inherit tags that the note then gets from the parent's mapping as well
C30_NoDuplicateIntroduced ==
    [][ \A d \in Docs :
          /\ (files[d].exists /\ files'[d].exists /\ NoDuplicates(TagsOf(files, d)))
                => NoDuplicates(TagsOf(files', d))
          /\ (last'.op = "create" /\ d = last'.d /\ last'.ran
                /\ NoDuplicates(last'.before))
                => NoDuplicates(TagsOf(files', d)) ]_vars

\* a create made the new directory inherit the tags t and b: the mappings give
\* each of them twice for the created note, and the note has each once
C30_Witness ==
    /\ last.op = "create" /\ last.ran
    /\ Len(Mappings(settings)) = Len(last.preMaps) + 1
    /\ Mappings(settings)[Len(Mappings(settings))].tags = <<T_t, <<"b">>>>
    /\ Count(getCustomDirectoryTags(settings, files[last.d].path), T_t) = 2
    /\ Count(TagsOf(files, last.d), T_t) = 1
    /\ Count(TagsOf(files, last.d), <<"b">>) = 1

====
